---- MODULE Spec2Model ----
(***************************************************************************)
(* LebenTestBot: the answer-resolution and explanation-cache logic of      *)
(* bot/bot.go, the SQLite store of database/ and the Deepseek adapter of   *)
(* ai/.  The update loop of Bot.Start handles one update at a time; the    *)
(* only concurrency is the goroutine handleCallback launches for a         *)
(* question whose right answer is not known.                               *)
(***************************************************************************)
EXTENDS Integers, Sequences, FiniteSets, TLC

(* ------------------------------ bounds --------------------------------- *)

\* Updates the loop handles in one run.
MaxEvents == 3
\* Rows of user_activity in the runs that exercise the statistics queries.
MaxRecords == 4
\* Largest LIMIT handed to GetMostFrequentIncorrectQuestions in those runs.
MaxLimit == 2
\* Updates the loop handles in one run in which writes and sends can fail.
MaxFaultEvents == 2

(* ------------------------------ dataset -------------------------------- *)

Users == {1, 2}

\* What loadQuestions returns for one assets/questions.json, models.Question
\* rows by Number: one with a right answer inside its answers, one with an
\* unknown right answer (-1), one whose right answer lies outside its answers.
loadQuestions ==
    [n \in {1, 2, 3} |->
        CASE n = 1 -> [Answers |-> <<"q1a0", "q1a1">>, RightAnswer |-> 1]
          [] n = 2 -> [Answers |-> <<"q2a0", "q2a1">>, RightAnswer |-> -1]
          [] n = 3 -> [Answers |-> <<"q3a0", "q3a1">>, RightAnswer |-> 2]]

\* What it returns for another questions.json: a question with two answers
\* and one with none, both with an unknown right answer.
loadQuestionsNoAnswers ==
    [n \in {1, 2} |->
        CASE n = 1 -> [Answers |-> <<"q1a0", "q1a1">>, RightAnswer |-> -1]
          [] n = 2 -> [Answers |-> <<>>, RightAnswer |-> -1]]

\* A question number carried by a callback that no loaded question has.
MissingQuestion == 9

\* Answer numbers a callback can carry ("answer:<q>:<a>" is client data).
AnswerNums == 1 .. 2

\* Message.Chat.ID of an update sent by user u (private chat: the user's ID).
ChatsOf(u) == {u}

\* Message.Chat.ID of a group the bot is a member of: in a group Chat.ID is
\* the group's (negative) ID, whoever sent the update.
GroupChat == -100

\* Contents the Deepseek API can return in choices[0].message.content.
Contents == {"", "e1"}

(* ------------------------------- state --------------------------------- *)

VARIABLES
    questions,      \* Bot.questions: the loaded questions, by Number
    userQuestions,  \* Bot.userQuestions: ID -> current question number
    cache,          \* table deepseek_cache, by question_number
    activity,       \* table user_activity, in insertion order
    tasks,          \* the goroutines launched by handleCallback
    main,           \* where the update loop is (idle, or inside /help's API call)
    updates,        \* the number of updates the loop has taken
    aiCalls,        \* AnalyzeQuestion invocations so far, by question number
    lastOut,        \* what the handler of the last update sent to Telegram
    lastReads       \* the questions whose cache row that handler read

vars == <<questions, userQuestions, cache, activity, tasks, main, updates, aiCalls, lastOut,
          lastReads>>

\* The Numbers of the loaded questions.
QuestionNumbers == DOMAIN questions

NoRow == [present |-> FALSE, response |-> "", right_answer |-> -1]

Idle == [pc |-> "idle", from |-> 0, chat |-> 0, questionNum |-> 0]

(* ------------------------- database/database.go ------------------------ *)

\* A save that keeps one row per user and question: the row is rewritten
\* when the user answers the question again.
SaveUserActivityUpsert(log, userID, questionNumber, answerNumber, correct) ==
    LET row == [user_id |-> userID, question_number |-> questionNumber,
                answer_number |-> answerNumber, correct |-> correct]
        old == {i \in DOMAIN log : /\ log[i].user_id = userID
                                   /\ log[i].question_number = questionNumber}
    IN  IF old = {} THEN Append(log, row)
        ELSE [i \in DOMAIN log |-> IF i \in old THEN row ELSE log[i]]

\* SaveUserActivity: INSERT INTO user_activity. The rows are kept in the
\* order of their autoincrement id; the timestamp column, which no query
\* of the bot reads, is left out.
SaveUserActivity(log, userID, questionNumber, answerNumber, correct) ==
    Append(log, [user_id |-> userID, question_number |-> questionNumber,
                 answer_number |-> answerNumber, correct |-> correct])

\* CacheDeepseekResponse: INSERT OR REPLACE INTO deepseek_cache.
CacheDeepseekResponse(tbl, questionNumber, response, rightAnswer) ==
    [tbl EXCEPT ![questionNumber] =
        [present |-> TRUE, response |-> response, right_answer |-> rightAnswer]]

\* GetCachedDeepseekResponse: the row's (response, right_answer), and
\* ("", -1) with a nil error when sql.ErrNoRows.
GetCachedDeepseekResponse(tbl, questionNumber) ==
    IF tbl[questionNumber].present
    THEN <<tbl[questionNumber].response, tbl[questionNumber].right_answer>>
    ELSE <<"", -1>>

\* GetUserStats with the user_id condition missing from its second query.
GetUserStatsAllUsers(log, userID) ==
    [correct   |-> Cardinality({i \in DOMAIN log :
                        log[i].user_id = userID /\ log[i].correct}),
     incorrect |-> Cardinality({i \in DOMAIN log : ~log[i].correct})]

\* SELECT COUNT(*) FROM user_activity WHERE user_id = ? AND correct = 1,
\* then the same with correct = 0.
GetUserStats(log, userID) ==
    [correct   |-> Cardinality({i \in DOMAIN log :
                        log[i].user_id = userID /\ log[i].correct}),
     incorrect |-> Cardinality({i \in DOMAIN log :
                        log[i].user_id = userID /\ ~log[i].correct})]

\* COUNT(*) of one group of WHERE user_id = ? AND correct = 0 GROUP BY question_number.
IncorrectCount(log, userID, questionNumber) ==
    Cardinality({i \in DOMAIN log :
        /\ log[i].user_id = userID
        /\ ~log[i].correct
        /\ log[i].question_number = questionNumber})

\* The groups of that query: the question numbers with a matching row.
IncorrectGroups(log, userID) ==
    {log[i].question_number : i \in {j \in DOMAIN log :
        log[j].user_id = userID /\ ~log[j].correct}}

Min(a, b) == IF a <= b THEN a ELSE b

\* The query with ORDER BY count ASC.
OrderByCountAsc(log, userID) ==
    LET G == IncorrectGroups(log, userID)
        n == Cardinality(G)
    IN  {s \in [1 .. n -> G] :
            /\ \A i, j \in 1 .. n : i # j => s[i] # s[j]
            /\ \A i \in 1 .. n : \A j \in 1 .. n :
                 i < j => IncorrectCount(log, userID, s[i])
                            <= IncorrectCount(log, userID, s[j])}

\* ORDER BY count DESC: every order of the groups with non-increasing counts
\* (SQL leaves the order of equal counts to the engine).
OrderByCountDesc(log, userID) ==
    LET G == IncorrectGroups(log, userID)
        n == Cardinality(G)
    IN  {s \in [1 .. n -> G] :
            /\ \A i, j \in 1 .. n : i # j => s[i] # s[j]
            /\ \A i \in 1 .. n : \A j \in 1 .. n :
                 i < j => IncorrectCount(log, userID, s[i])
                            >= IncorrectCount(log, userID, s[j])}

\* GetMostFrequentIncorrectQuestions: the results the query can give, each
\* the first LIMIT question numbers of one such order.
GetMostFrequentIncorrectQuestions(log, userID, limit) ==
    {SubSeq(s, 1, Min(limit, Len(s))) : s \in OrderByCountDesc(log, userID)}

(* ------------------------------ ai/deepseek.go ------------------------- *)

\* An extraction that reads the index off the content and does not look at
\* the question: none in an empty content, the second answer otherwise.
extractFromContentOnly(content, question) ==
    IF content = "" THEN -1 ELSE 1

\* extractRightAnswerFromContent: the question's own right answer when it
\* is an index of its answers, else -1; the content is not looked at.
extractRightAnswerFromContent(content, question) ==
    IF question.RightAnswer >= 0 /\ question.RightAnswer < Len(question.Answers)
    THEN question.RightAnswer
    ELSE -1

\* AnalyzeQuestion: what one call can return. An error (timeout, transport,
\* status, JSON, no choices) or the content with the extracted right answer.
AnalyzeQuestion(question) ==
    {[err |-> TRUE, response |-> "", rightAnswer |-> -1]}
    \cup {[err |-> FALSE, response |-> c,
           rightAnswer |-> extractRightAnswerFromContent(c, question)] :
          c \in Contents}

(* ------------------------------ bot/bot.go ----------------------------- *)

\* A message text: which template of bot.go it is and what fills its verbs.
Text(tag, userAnswer, correctAnswerText, body) ==
    [tag |-> tag, userAnswer |-> userAnswer,
     correctAnswerText |-> correctAnswerText, body |-> body,
     stats |-> <<>>, list |-> <<>>]

\* sendMessage: one text message to a chat.
sendMessage(chatID, text) ==
    [kind |-> "send", chat |-> chatID, msgID |-> 0, text |-> text]

\* question.Answers[i] when i is an index of the answers, else "Unknown"
\* (Go slices are 0-based, sequences 1-based).
AnswerText(question, i) ==
    IF i >= 0 /\ i < Len(question.Answers)
    THEN question.Answers[i + 1]
    ELSE "Unknown"

\* The inline keyboard without the default button: one button per answer,
\* none for a question that has no answers.
KeyboardNoDefault(questionNum) ==
    LET n == Len(questions[questionNum].Answers)
    IN  [i \in 1 .. n |-> <<questionNum, i - 1>>]

\* The inline keyboard of sendRandomQuestion: one button per answer, and
\* one default button with answer 0 when the question has no answers.
Keyboard(questionNum) ==
    LET n == Len(questions[questionNum].Answers)
    IN  IF n = 0
        THEN << <<questionNum, 0>> >>
        ELSE [i \in 1 .. n |-> <<questionNum, i - 1>>]

\* sendRandomQuestion storing the index of the question in b.questions in
\* place of its Number.
sendRandomQuestionStoresIndex(chatID, questionNum, before) ==
    /\ userQuestions' =
          [id \in DOMAIN userQuestions \cup {chatID} |->
              IF id = chatID THEN questionNum - 1 ELSE userQuestions[id]]
    /\ lastOut' = before \o
          << sendMessage(chatID, Text("question", "", "", "")),
             [sendMessage(chatID, Text("select", "", "", ""))
                 EXCEPT !.text.list = Keyboard(questionNum)] >>

\* sendRandomQuestion: stores the question under the chat ID and sends the
\* question and its keyboard.
sendRandomQuestion(chatID, questionNum, before) ==
    /\ userQuestions' =
          [id \in DOMAIN userQuestions \cup {chatID} |->
              IF id = chatID THEN questionNum ELSE userQuestions[id]]
    /\ lastOut' = before \o
          << sendMessage(chatID, Text("question", "", "", "")),
             [sendMessage(chatID, Text("select", "", "", ""))
                 EXCEPT !.text.list = Keyboard(questionNum)] >>

\* One more update taken from the updates channel.
TakeUpdate ==
    /\ main.pc = "idle"
    /\ updates < MaxEvents
    /\ updates' = updates + 1

\* handleStartCommand: the welcome text, then a random question.
handleStartCommand(from, chat) ==
    /\ TakeUpdate
    /\ \E q \in QuestionNumbers :
          sendRandomQuestion(chat, q,
              << sendMessage(chat, Text("welcome", "", "", "")) >>)
    /\ lastReads' = {}
    /\ UNCHANGED <<questions, cache, activity, tasks, main, aiCalls>>

\* handleNextCommand: a random question.
handleNextCommand(from, chat) ==
    /\ TakeUpdate
    /\ \E q \in QuestionNumbers : sendRandomQuestion(chat, q, <<>>)
    /\ lastReads' = {}
    /\ UNCHANGED <<questions, cache, activity, tasks, main, aiCalls>>

\* One more call of AnalyzeQuestion for a question.
CountCall(questionNum) ==
    aiCalls' = [aiCalls EXCEPT ![questionNum] = @ + 1]

\* handleHelpCommand's test of the cache (bot.go 181-195): AnalyzeQuestion is
\* called when the row's response is empty, and so when there is no row.
helpCallsAnalyze(tbl, questionNum) ==
    GetCachedDeepseekResponse(tbl, questionNum)[1] = ""

\* handleHelpCommand without the test of exists: a user with no current
\* question gets the map's zero value, question number 0, which is not loaded.
handleHelpCommandNoExistsTest(from, chat) ==
    /\ TakeUpdate
    /\ LET questionNum == IF from \in DOMAIN userQuestions
                          THEN userQuestions[from] ELSE 0 IN
       IF questionNum \notin QuestionNumbers
       THEN /\ lastOut' = << sendMessage(chat, Text("notFound", "", "", "")) >>
            /\ lastReads' = {}
            /\ UNCHANGED <<main, aiCalls>>
       ELSE LET cachedResponse ==
                    GetCachedDeepseekResponse(cache, questionNum)[1] IN
            /\ lastReads' = {questionNum}
            /\ IF cachedResponse # ""
               THEN /\ lastOut' =
                         << sendMessage(chat, Text("help", "", "", cachedResponse)) >>
                    /\ UNCHANGED <<main, aiCalls>>
               ELSE /\ lastOut' =
                         << sendMessage(chat, Text("analyzing", "", "", "")) >>
                    /\ main' = [pc |-> "helpAI", from |-> from, chat |-> chat,
                                questionNum |-> questionNum]
                    /\ CountCall(questionNum)
    /\ UNCHANGED <<questions, userQuestions, cache, activity, tasks>>

\* handleHelpCommand up to the call of AnalyzeQuestion: no current question,
\* a current question that is not loaded, a cached response, or the
\* "Analyzing" message and the call, inside which the update loop waits.
handleHelpCommand(from, chat) ==
    /\ TakeUpdate
    /\ IF from \notin DOMAIN userQuestions
       THEN /\ lastOut' = << sendMessage(chat, Text("useStart", "", "", "")) >>
            /\ lastReads' = {}
            /\ UNCHANGED <<main, aiCalls>>
       ELSE LET questionNum == userQuestions[from] IN
            IF questionNum \notin QuestionNumbers
            THEN /\ lastOut' = << sendMessage(chat, Text("notFound", "", "", "")) >>
                 /\ lastReads' = {}
                 /\ UNCHANGED <<main, aiCalls>>
            ELSE LET cachedResponse ==
                         GetCachedDeepseekResponse(cache, questionNum)[1] IN
                 /\ lastReads' = {questionNum}
                 /\ IF ~helpCallsAnalyze(cache, questionNum)
                    THEN /\ lastOut' =
                            << sendMessage(chat, Text("help", "", "", cachedResponse)) >>
                         /\ UNCHANGED <<main, aiCalls>>
                    ELSE /\ lastOut' =
                            << sendMessage(chat, Text("analyzing", "", "", "")) >>
                         /\ main' = [pc |-> "helpAI", from |-> from, chat |-> chat,
                                     questionNum |-> questionNum]
                         /\ CountCall(questionNum)
    /\ UNCHANGED <<questions, userQuestions, cache, activity, tasks>>

\* handleHelpCommand caching what AnalyzeQuestion returned also when it
\* returned an error.
handleHelpReturnCachesError(stored) ==
    /\ main.pc = "helpAI"
    /\ \E r \in AnalyzeQuestion(questions[main.questionNum]) :
          /\ cache' = IF stored
                      THEN CacheDeepseekResponse(cache, main.questionNum,
                                                 r.response, r.rightAnswer)
                      ELSE cache
          /\ lastOut' = Append(lastOut,
                 sendMessage(main.chat,
                     IF r.err THEN Text("helpFailed", "", "", "")
                     ELSE Text("help", "", "", r.response)))
    /\ main' = Idle
    /\ UNCHANGED <<questions, userQuestions, activity, tasks, updates, aiCalls,
                   lastReads>>

\* handleHelpCommand from the return of AnalyzeQuestion: an error message,
\* or the response cached and sent. stored: CacheDeepseekResponse returned
\* no error.
handleHelpReturn(stored) ==
    /\ main.pc = "helpAI"
    /\ \E r \in AnalyzeQuestion(questions[main.questionNum]) :
          IF r.err
          THEN /\ lastOut' = Append(lastOut,
                                sendMessage(main.chat, Text("helpFailed", "", "", "")))
               /\ UNCHANGED cache
          ELSE /\ cache' = IF stored
                          THEN CacheDeepseekResponse(cache, main.questionNum,
                                                     r.response, r.rightAnswer)
                          ELSE cache
               /\ lastOut' = Append(lastOut,
                                sendMessage(main.chat, Text("help", "", "", r.response)))
    /\ main' = Idle
    /\ UNCHANGED <<questions, userQuestions, activity, tasks, updates, aiCalls, lastReads>>

\* The limit handleStatCommand hands to GetMostFrequentIncorrectQuestions.
StatLimit == 3

\* The "Most Challenging Questions" lines: the returned questions that are loaded.
Challenging(top) ==
    SelectSeq(top, LAMBDA q : q \in QuestionNumbers)

\* The statistics message for the numbers the two queries returned.
StatMessage(chat, stats, top) ==
    [sendMessage(chat, Text("stat", "", "", "")) EXCEPT
        !.text.stats = <<stats.correct + stats.incorrect, stats.correct,
                         stats.incorrect>>,
        !.text.list = Challenging(top)]

\* handleStatCommand: the user's counts and, when there are any, the
\* questions answered incorrectly most often.
handleStatCommand(from, chat) ==
    /\ TakeUpdate
    /\ LET stats == GetUserStats(activity, from) IN
       IF stats.correct + stats.incorrect > 0
       THEN \E top \in GetMostFrequentIncorrectQuestions(activity, from, StatLimit) :
               lastOut' = << StatMessage(chat, stats, top) >>
       ELSE lastOut' = << StatMessage(chat, stats, <<>>) >>
    /\ lastReads' = {}
    /\ UNCHANGED <<questions, userQuestions, cache, activity, tasks, main, aiCalls>>

\* handleCallback answering data that is not "answer:<int>:<int>" with the
\* message it sends for a question that is not loaded.
handleCallbackInvalidReplies(from, chat) ==
    /\ TakeUpdate
    /\ lastOut' = << sendMessage(chat, Text("unavailable", "", "", "")) >>
    /\ lastReads' = {}
    /\ UNCHANGED <<questions, userQuestions, cache, activity, tasks, main, aiCalls>>

\* handleCallback on data that is not "answer:<int>:<int>": logged, nothing else.
handleCallbackInvalid(from, chat) ==
    /\ TakeUpdate
    /\ lastOut' = <<>>
    /\ lastReads' = {}
    /\ UNCHANGED <<questions, userQuestions, cache, activity, tasks, main, aiCalls>>

\* handleCallback taking the cache's right answer without the test for -1.
KnownRightAnswerCacheOnly(tbl, questionNum) ==
    GetCachedDeepseekResponse(tbl, questionNum)[2]

\* The right answer handleCallback works with: the cached one when the cache
\* has one, else the question's own.
KnownRightAnswer(tbl, questionNum) ==
    LET cached == GetCachedDeepseekResponse(tbl, questionNum)
    IN  IF cached[2] # -1 THEN cached[2] ELSE questions[questionNum].RightAnswer

\* A goroutine launched after handleCallback itself has called
\* AnalyzeQuestion: it starts inside the call.
NewTaskInCall(from, chat, questionNum, answerNum, messageID) ==
    [from |-> from, chat |-> chat, questionNum |-> questionNum,
     answerNum |-> answerNum,
     userAnswer |-> AnswerText(questions[questionNum], answerNum),
     initialMessageID |-> messageID,
     pc |-> "ai", rightAnswer |-> -1, cachedResponse |-> "",
     isCorrect |-> FALSE, calledAI |-> TRUE,
     text |-> Text("placeholder",
                   AnswerText(questions[questionNum], answerNum), "", ""),
     edits |-> 0]

\* The goroutine handleCallback launches, as it starts: the variables its
\* closure captures and the message it will edit.
NewTask(from, chat, questionNum, answerNum, messageID) ==
    [from |-> from, chat |-> chat, questionNum |-> questionNum,
     answerNum |-> answerNum,
     userAnswer |-> AnswerText(questions[questionNum], answerNum),
     initialMessageID |-> messageID,
     pc |-> "recheck", rightAnswer |-> -1, cachedResponse |-> "",
     isCorrect |-> FALSE, calledAI |-> FALSE,
     text |-> Text("placeholder",
                   AnswerText(questions[questionNum], answerNum), "", ""),
     edits |-> 0]

\* handleCallback returning when SaveUserActivity returns an error.
handleCallbackReturnOnSaveError(from, chat, questionNum, answerNum, saved, sent) ==
    /\ TakeUpdate
    /\ IF questionNum \notin QuestionNumbers
       THEN /\ lastOut' = << sendMessage(chat, Text("unavailable", "", "", "")) >>
            /\ lastReads' = {}
            /\ UNCHANGED <<activity, tasks>>
       ELSE LET question == questions[questionNum]
                rightAnswer == KnownRightAnswer(cache, questionNum)
                isCorrect == rightAnswer # -1 /\ answerNum = rightAnswer
            IN  /\ lastReads' = {questionNum}
                /\ IF ~saved
                   THEN /\ lastOut' = <<>>
                        /\ UNCHANGED <<activity, tasks>>
                   ELSE /\ activity' = SaveUserActivity(activity, from, questionNum,
                                                        answerNum, isCorrect)
                        /\ IF rightAnswer # -1
                           THEN /\ lastOut' =
                                     << sendMessage(chat,
                                          IF isCorrect
                                          THEN Text("correct", "", "", "")
                                          ELSE Text("incorrect", "",
                                                    AnswerText(question, rightAnswer),
                                                    "")) >>
                                /\ UNCHANGED tasks
                           ELSE IF sent
                           THEN /\ tasks' = Append(tasks,
                                       NewTask(from, chat, questionNum, answerNum,
                                               Len(tasks) + 1))
                                /\ lastOut' =
                                     << [sendMessage(chat,
                                           Text("placeholder",
                                                AnswerText(question, answerNum),
                                                "", ""))
                                         EXCEPT !.msgID = Len(tasks) + 1] >>
                           ELSE /\ lastOut' = <<>>
                                /\ UNCHANGED tasks
    /\ UNCHANGED <<questions, userQuestions, cache, main, aiCalls>>

\* handleCallback making the answered question the chat's current question
\* in userQuestions.
handleCallbackSetsSession(from, chat, questionNum, answerNum, saved, sent) ==
    /\ TakeUpdate
    /\ IF questionNum \notin QuestionNumbers
       THEN /\ lastOut' = << sendMessage(chat, Text("unavailable", "", "", "")) >>
            /\ lastReads' = {}
            /\ UNCHANGED <<activity, tasks>>
       ELSE LET question == questions[questionNum]
                rightAnswer == KnownRightAnswer(cache, questionNum)
                isCorrect == rightAnswer # -1 /\ answerNum = rightAnswer
            IN  /\ lastReads' = {questionNum}
                /\ activity' =
                      IF saved
                      THEN SaveUserActivity(activity, from, questionNum,
                                            answerNum, isCorrect)
                      ELSE activity
                /\ IF rightAnswer # -1
                   THEN /\ lastOut' =
                              << sendMessage(chat,
                                    IF isCorrect
                                    THEN Text("correct", "", "", "")
                                    ELSE Text("incorrect", "",
                                              AnswerText(question, rightAnswer), "")) >>
                        /\ UNCHANGED tasks
                   ELSE IF sent
                   THEN /\ tasks' = Append(tasks,
                               NewTask(from, chat, questionNum, answerNum,
                                       Len(tasks) + 1))
                        /\ lastOut' =
                             << [sendMessage(chat,
                                   Text("placeholder",
                                        AnswerText(question, answerNum), "", ""))
                                 EXCEPT !.msgID = Len(tasks) + 1] >>
                   ELSE /\ lastOut' = <<>>
                        /\ UNCHANGED tasks
    /\ userQuestions' =
          IF questionNum \in QuestionNumbers
          THEN [id \in DOMAIN userQuestions \cup {chat} |->
                   IF id = chat THEN questionNum ELSE userQuestions[id]]
          ELSE userQuestions
    /\ UNCHANGED <<questions, cache, main, aiCalls>>

\* handleCallback on well-formed data, up to the launch of the goroutine:
\* the question looked up, the right answer taken from the cache or the
\* question, the activity saved, and either the verdict sent or the
\* placeholder sent and the goroutine launched. saved: SaveUserActivity
\* returned no error; sent: the placeholder's Send returned no error.
handleCallback(from, chat, questionNum, answerNum, saved, sent) ==
    /\ TakeUpdate
    /\ IF questionNum \notin QuestionNumbers
       THEN /\ lastOut' = << sendMessage(chat, Text("unavailable", "", "", "")) >>
            /\ lastReads' = {}
            /\ UNCHANGED <<activity, tasks>>
       ELSE LET question == questions[questionNum]
                rightAnswer == KnownRightAnswer(cache, questionNum)
                isCorrect == rightAnswer # -1 /\ answerNum = rightAnswer
            IN  /\ lastReads' = {questionNum}
                /\ activity' =
                      IF saved
                      THEN SaveUserActivity(activity, from, questionNum,
                                            answerNum, isCorrect)
                      ELSE activity
                /\ IF rightAnswer # -1
                   THEN /\ lastOut' =
                              << sendMessage(chat,
                                    IF isCorrect
                                    THEN Text("correct", "", "", "")
                                    ELSE Text("incorrect", "",
                                              AnswerText(question, rightAnswer), "")) >>
                        /\ UNCHANGED tasks
                   ELSE IF sent
                   THEN /\ tasks' = Append(tasks,
                               NewTask(from, chat, questionNum, answerNum,
                                       Len(tasks) + 1))
                        /\ lastOut' =
                             << [sendMessage(chat,
                                   Text("placeholder",
                                        AnswerText(question, answerNum), "", ""))
                                 EXCEPT !.msgID = Len(tasks) + 1] >>
                   ELSE /\ lastOut' = <<>>
                        /\ UNCHANGED tasks
    /\ UNCHANGED <<questions, userQuestions, cache, main, aiCalls>>

\* The end of the goroutine taking an unknown right answer (-1) for a
\* verdict: the answer is compared with it and the message is edited to
\* the verdict whenever there is a response.
ConcludeUnknownAsVerdict(t, rightAnswer, cachedResponse, text, edits) ==
    LET question == questions[t.questionNum]
        isCorrect == t.answerNum = rightAnswer
        final == Text(IF isCorrect THEN "asyncCorrect" ELSE "asyncIncorrect",
                      t.userAnswer,
                      IF isCorrect THEN "" ELSE AnswerText(question, rightAnswer),
                      cachedResponse)
        edited == cachedResponse # ""
    IN  [t EXCEPT !.pc = "done", !.rightAnswer = rightAnswer,
                  !.cachedResponse = cachedResponse, !.isCorrect = isCorrect,
                  !.text = IF edited THEN final ELSE text,
                  !.edits = IF edited THEN edits + 1 ELSE edits]

\* The end of the goroutine (bot.go 427-456): with a right answer, the
\* correctness computed and, with a response, the message edited to the
\* verdict and the response.
Conclude(t, rightAnswer, cachedResponse, text, edits) ==
    LET question == questions[t.questionNum]
        isCorrect == IF rightAnswer # -1 THEN t.answerNum = rightAnswer
                     ELSE t.isCorrect
        final == Text(IF isCorrect THEN "asyncCorrect" ELSE "asyncIncorrect",
                      t.userAnswer,
                      IF isCorrect THEN "" ELSE AnswerText(question, rightAnswer),
                      cachedResponse)
        edited == rightAnswer # -1 /\ cachedResponse # ""
    IN  [t EXCEPT !.pc = "done", !.rightAnswer = rightAnswer,
                  !.cachedResponse = cachedResponse, !.isCorrect = isCorrect,
                  !.text = IF edited THEN final ELSE text,
                  !.edits = IF edited THEN edits + 1 ELSE edits]

\* The goroutine's second look at the cache, with the question read from
\* userQuestions as the goroutine runs and not taken from the variables it
\* was launched with.
GoroutineRecheckReadsSession(i) ==
    /\ i \in DOMAIN tasks
    /\ tasks[i].pc = "recheck"
    /\ LET current == IF tasks[i].chat \in DOMAIN userQuestions
                      THEN userQuestions[tasks[i].chat]
                      ELSE tasks[i].questionNum
           t == [tasks[i] EXCEPT !.questionNum = current]
           cached == GetCachedDeepseekResponse(cache, t.questionNum)
       IN  IF cached[2] # -1 /\ cached[1] # ""
           THEN LET done == Conclude(t, cached[2], cached[1], t.text, t.edits)
                IN  /\ tasks' = [tasks EXCEPT ![i] = done]
                    /\ UNCHANGED aiCalls
           ELSE IF t.cachedResponse = ""
           THEN /\ tasks' = [tasks EXCEPT ![i] = [t EXCEPT !.pc = "ai",
                                                           !.calledAI = TRUE]]
                /\ CountCall(t.questionNum)
           ELSE LET done == Conclude(t, t.rightAnswer, t.cachedResponse,
                                     t.text, t.edits)
                IN  /\ tasks' = [tasks EXCEPT ![i] = done]
                    /\ UNCHANGED aiCalls
    /\ UNCHANGED <<questions, userQuestions, cache, activity, main, updates, lastOut,
                   lastReads>>

\* The goroutine's second look at the cache (bot.go 389-396): a cached
\* response with a right answer is used, else AnalyzeQuestion is called.
GoroutineRecheck(i) ==
    /\ i \in DOMAIN tasks
    /\ tasks[i].pc = "recheck"
    /\ LET t == tasks[i]
           cached == GetCachedDeepseekResponse(cache, t.questionNum)
       IN  IF cached[2] # -1 /\ cached[1] # ""
           THEN LET done == Conclude(t, cached[2], cached[1], t.text, t.edits)
                IN  /\ tasks' = [tasks EXCEPT ![i] = done]
                    /\ UNCHANGED aiCalls
           ELSE IF t.cachedResponse = ""
           THEN /\ tasks' = [tasks EXCEPT ![i].pc = "ai", ![i].calledAI = TRUE]
                /\ CountCall(t.questionNum)
           ELSE LET done == Conclude(t, t.rightAnswer, t.cachedResponse,
                                     t.text, t.edits)
                IN  /\ tasks' = [tasks EXCEPT ![i] = done]
                    /\ UNCHANGED aiCalls
    /\ UNCHANGED <<questions, userQuestions, cache, activity, main, updates, lastOut,
                   lastReads>>

\* The goroutine looking at the cache and calling AnalyzeQuestion again
\* after an error of AnalyzeQuestion.
GoroutineReturnRetry(i, stored) ==
    /\ i \in DOMAIN tasks
    /\ tasks[i].pc = "ai"
    /\ LET t == tasks[i] IN
       \E r \in AnalyzeQuestion(questions[t.questionNum]) :
          IF r.err
          THEN /\ tasks' = [tasks EXCEPT ![i].pc = "recheck"]
               /\ UNCHANGED cache
          ELSE LET updated == Text("analysis", t.userAnswer, "", r.response)
                   done == Conclude(t, r.rightAnswer, r.response, updated,
                                    t.edits + 1)
               IN  /\ tasks' = [tasks EXCEPT ![i] = done]
                   /\ cache' = IF stored
                              THEN CacheDeepseekResponse(cache, t.questionNum,
                                                         r.response, r.rightAnswer)
                              ELSE cache
    /\ UNCHANGED <<questions, userQuestions, activity, main, updates, aiCalls,
                   lastOut, lastReads>>

\* The goroutine returning on an error of AnalyzeQuestion without editing
\* the message.
GoroutineReturnSilentError(i, stored) ==
    /\ i \in DOMAIN tasks
    /\ tasks[i].pc = "ai"
    /\ LET t == tasks[i] IN
       \E r \in AnalyzeQuestion(questions[t.questionNum]) :
          IF r.err
          THEN /\ tasks' = [tasks EXCEPT ![i].pc = "done"]
               /\ UNCHANGED cache
          ELSE LET updated == Text("analysis", t.userAnswer, "", r.response)
                   done == Conclude(t, r.rightAnswer, r.response, updated,
                                    t.edits + 1)
               IN  /\ tasks' = [tasks EXCEPT ![i] = done]
                   /\ cache' = IF stored
                              THEN CacheDeepseekResponse(cache, t.questionNum,
                                                         r.response, r.rightAnswer)
                              ELSE cache
    /\ UNCHANGED <<questions, userQuestions, activity, main, updates, aiCalls,
                   lastOut, lastReads>>

\* The goroutine from the return of AnalyzeQuestion (bot.go 397-456): on an
\* error the message is edited to the failure text; else it is edited to
\* the response, the response is cached, and the goroutine ends as above.
\* The message's text and the number of its edits are kept in the task.
\* stored: CacheDeepseekResponse returned no error.
GoroutineReturn(i, stored) ==
    /\ i \in DOMAIN tasks
    /\ tasks[i].pc = "ai"
    /\ LET t == tasks[i] IN
       \E r \in AnalyzeQuestion(questions[t.questionNum]) :
          IF r.err
          THEN LET failed == [t EXCEPT !.pc = "done",
                                 !.text = Text("aiFailed", t.userAnswer, "", ""),
                                 !.edits = t.edits + 1]
               IN  /\ tasks' = [tasks EXCEPT ![i] = failed]
                   /\ UNCHANGED cache
          ELSE LET updated == Text("analysis", t.userAnswer, "", r.response)
                   done == Conclude(t, r.rightAnswer, r.response, updated,
                                    t.edits + 1)
               IN  /\ tasks' = [tasks EXCEPT ![i] = done]
                   /\ cache' = IF stored
                              THEN CacheDeepseekResponse(cache, t.questionNum,
                                                         r.response, r.rightAnswer)
                              ELSE cache
    /\ UNCHANGED <<questions, userQuestions, activity, main, updates, aiCalls, lastOut,
                   lastReads>>

(* --------------------------- the bot's runs ----------------------------- *)

\* New, with the questions loadQuestions returned: no current questions,
\* and the tables as createTables leaves a new database file.
InitWith(loaded) ==
    /\ questions = loaded
    /\ userQuestions = <<>>
    /\ cache = [n \in DOMAIN loaded |-> NoRow]
    /\ activity = <<>>
    /\ tasks = <<>>
    /\ main = Idle
    /\ updates = 0
    /\ aiCalls = [n \in DOMAIN loaded |-> 0]
    /\ lastOut = <<>>
    /\ lastReads = {}

\* The bot as New returns it for the first questions.json.
Init == InitWith(loadQuestions)

\* Start and handleMessage: the next update goes to its handler; the
\* goroutines run beside the loop. Outcomes: what a write to the database
\* or a Send of the placeholder can return (TRUE: no error).
Step(Outcomes) ==
    \/ \E from \in Users : \E chat \in ChatsOf(from) :
          \/ handleStartCommand(from, chat)
          \/ handleNextCommand(from, chat)
          \/ handleHelpCommand(from, chat)
          \/ handleStatCommand(from, chat)
          \/ handleCallbackInvalid(from, chat)
          \/ \E q \in QuestionNumbers \cup {MissingQuestion} :
                \E a \in AnswerNums : \E saved, sent \in Outcomes :
                    handleCallback(from, chat, q, a, saved, sent)
    \/ \E stored \in Outcomes : handleHelpReturn(stored)
    \/ \E i \in DOMAIN tasks : GoroutineRecheck(i)
    \/ \E i \in DOMAIN tasks : \E stored \in Outcomes : GoroutineReturn(i, stored)

\* The runs in which the database and Telegram return no error.
Next == Step({TRUE})

Spec == Init /\ [][Next]_vars

\* The runs in which a write to the database or the Send of the placeholder
\* may return an error.
NextFaults ==
    \/ \E from \in Users : \E chat \in ChatsOf(from) :
          \/ updates < MaxFaultEvents /\ handleStartCommand(from, chat)
          \/ updates < MaxFaultEvents /\ handleNextCommand(from, chat)
          \/ updates < MaxFaultEvents /\ handleHelpCommand(from, chat)
          \/ updates < MaxFaultEvents /\ handleStatCommand(from, chat)
          \/ updates < MaxFaultEvents /\ handleCallbackInvalid(from, chat)
          \/ \E q \in QuestionNumbers \cup {MissingQuestion} :
                \E a \in AnswerNums : \E saved, sent \in BOOLEAN :
                    /\ updates < MaxFaultEvents
                    /\ handleCallback(from, chat, q, a, saved, sent)
    \/ \E stored \in BOOLEAN : handleHelpReturn(stored)
    \/ \E i \in DOMAIN tasks : GoroutineRecheck(i)
    \/ \E i \in DOMAIN tasks : \E stored \in BOOLEAN : GoroutineReturn(i, stored)

SpecFaults == Init /\ [][NextFaults]_vars

\* The runs, failing writes and sends included, in which every goroutine
\* gets to run and every call of AnalyzeQuestion by a goroutine returns (the
\* HTTP client has a timeout).
Fairness ==
    \A i \in 1 .. MaxFaultEvents :
        /\ WF_vars(GoroutineRecheck(i))
        /\ WF_vars(\E stored \in BOOLEAN : GoroutineReturn(i, stored))

SpecLive == SpecFaults /\ Fairness

(* ------------- runs with updates from a group and private chats --------- *)

\* The commands that set and read the current question, sent by a user in
\* the user's private chat or in the group.
NextSessions ==
    \/ \E from \in Users : \E chat \in ChatsOf(from) \cup {GroupChat} :
          \/ handleStartCommand(from, chat)
          \/ handleNextCommand(from, chat)
          \/ handleHelpCommand(from, chat)
    \/ handleHelpReturn(TRUE)

SpecSessions == Init /\ [][NextSessions]_vars

(* --------- runs with a question that has no answers, buttons pressed ----- *)

\* The callback of a button of the keyboard the bot sent last, pressed in
\* the chat it was sent to: its data is "answer:<q>:<i>" as
\* sendRandomQuestion wrote it.
PressButton(from, chat) ==
    /\ lastOut # <<>>
    /\ lastOut[Len(lastOut)].text.tag = "select"
    /\ lastOut[Len(lastOut)].chat = chat
    /\ \E k \in DOMAIN lastOut[Len(lastOut)].text.list :
          LET button == lastOut[Len(lastOut)].text.list[k]
          IN  handleCallback(from, chat, button[1], button[2], TRUE, TRUE)

NextKeyboard ==
    \/ \E from \in Users : \E chat \in ChatsOf(from) :
          \/ handleStartCommand(from, chat)
          \/ handleNextCommand(from, chat)
          \/ PressButton(from, chat)
    \/ \E i \in DOMAIN tasks : GoroutineRecheck(i)
    \/ \E i \in DOMAIN tasks : GoroutineReturn(i, TRUE)

\* The bot as New returns it for the questions.json with a question that
\* has no answers.
SpecKeyboard == InitWith(loadQuestionsNoAnswers) /\ [][NextKeyboard]_vars

(* ----------------- runs that exercise the statistics queries ------------ *)

\* One more row of user_activity, as SaveUserActivity inserts it (the
\* answer number is read by no query, so one value stands for all). The
\* rows are inserted before a query is made: a row inserted after one leads
\* to the state the same row leads to without the query.
RecordActivity(userID, questionNumber, correct) ==
    /\ Len(activity) < MaxRecords
    /\ lastOut = <<>>
    /\ activity' = SaveUserActivity(activity, userID, questionNumber, 1, correct)
    /\ lastOut' = <<>>
    /\ UNCHANGED <<questions, userQuestions, cache, tasks, main, updates, aiCalls, lastReads>>

\* The two statistics queries for a user, with a LIMIT of limit; what they
\* returned is kept as the statistics message.
StatQuery(userID, limit) ==
    /\ lastOut = <<>>
    /\ \E top \in GetMostFrequentIncorrectQuestions(activity, userID, limit) :
          lastOut' = << StatMessage(userID, GetUserStats(activity, userID), top) >>
    /\ UNCHANGED <<questions, userQuestions, cache, activity, tasks, main, updates, aiCalls,
                   lastReads>>

NextStats ==
    \E userID \in Users :
       \/ \E q \in QuestionNumbers : \E correct \in BOOLEAN :
             RecordActivity(userID, q, correct)
       \/ \E limit \in 0 .. MaxLimit : StatQuery(userID, limit)

SpecStats == Init /\ [][NextStats]_vars

(* ------------------------------- claims --------------------------------- *)

\* The goroutine i has ended with a response in hand (from AnalyzeQuestion
\* or from the cache).
Answered(i) ==
    tasks[i].pc = "done" /\ tasks[i].text.tag # "aiFailed"

\* C1: while the goroutine of one user's answer to a question with no known
\* right answer is still running, the answer of another user to the same
\* question does not make a second call of AnalyzeQuestion for it.
C1_SingleAICall ==
    \A i, j \in DOMAIN tasks :
        ( /\ i < j
          /\ tasks[i].questionNum = tasks[j].questionNum
          /\ tasks[i].from # tasks[j].from
          /\ tasks[i].pc # "done" )
        => aiCalls[tasks[i].questionNum] <= 1

\* C2: every saved answer to a question with a right answer in the dataset
\* that chose that right answer is saved as correct, whatever the cache
\* holds, and no goroutine (the only caller of AnalyzeQuestion on the answer
\* path) is ever launched for such a question.
C2_KnownAnswerCorrect ==
    /\ \A k \in DOMAIN activity :
          LET r == activity[k]
              ra == questions[r.question_number].RightAnswer
          IN  (ra # -1 /\ r.answer_number = ra) => r.correct
    /\ \A i \in DOMAIN tasks :
          questions[tasks[i].questionNum].RightAnswer = -1

\* C2, reached: the last update was the right answer of question 1, given
\* while the cache held a row for question 1, and it is saved as correct.
C2_Witness ==
    /\ Len(lastOut) = 1 /\ lastOut[1].text.tag = "correct"
    /\ Len(activity) > 0
    /\ activity[Len(activity)].question_number = 1
    /\ activity[Len(activity)].answer_number = 1
    /\ activity[Len(activity)].correct
    /\ cache[1].present

\* C3: the step that sends the placeholder and launches the goroutine saves
\* no activity, and every step that saves an activity knows the right answer
\* of the question it saves it for.
C3_NoRecordBeforeVerdict ==
    [][ /\ Len(tasks') > Len(tasks) => activity' = activity
        /\ Len(activity') > Len(activity) =>
              KnownRightAnswer(cache,
                  activity'[Len(activity')].question_number) # -1 ]_vars

Resolved(row) == row.present /\ row.right_answer # -1

\* C6: no step takes a cache row that has a right answer to one that has
\* none (-1) or away.
C6_MonotonicResolution ==
    [][ \A q \in QuestionNumbers : Resolved(cache[q]) => Resolved(cache'[q]) ]_vars

\* C6, reached: /help inside its call of AnalyzeQuestion for a question whose
\* cache row already has a right answer (the row it is about to replace).
C6_Witness ==
    /\ main.pc = "helpAI"
    /\ Resolved(cache[main.questionNum])

\* C7: a goroutine that wrote its response to the cache has used the pair
\* that the cache holds for its question.
C7_WritersUseStoredPair ==
    \A i \in DOMAIN tasks :
        (Answered(i) /\ tasks[i].calledAI)
        => <<tasks[i].cachedResponse, tasks[i].rightAnswer>>
              = GetCachedDeepseekResponse(cache, tasks[i].questionNum)

\* C8: for a question with a cache row, GetCachedDeepseekResponse returns the
\* row's pair, and that is not what it returns for no row.
C8_GetNeverAbsent ==
    \A q \in QuestionNumbers :
        cache[q].present =>
            /\ GetCachedDeepseekResponse(cache, q)
                  = <<cache[q].response, cache[q].right_answer>>
            /\ GetCachedDeepseekResponse(cache, q)
                  # GetCachedDeepseekResponse([cache EXCEPT ![q] = NoRow], q)

\* The rows of a log, counted one by one: those of a user (N), those of them
\* saved as correct (C), and those of them saved as incorrect for a question.
RECURSIVE RowsOf(_, _)
RowsOf(log, userID) ==
    IF log = <<>> THEN 0
    ELSE (IF Head(log).user_id = userID THEN 1 ELSE 0) + RowsOf(Tail(log), userID)

RECURSIVE CorrectRowsOf(_, _)
CorrectRowsOf(log, userID) ==
    IF log = <<>> THEN 0
    ELSE (IF Head(log).user_id = userID /\ Head(log).correct THEN 1 ELSE 0)
         + CorrectRowsOf(Tail(log), userID)

RECURSIVE Misses(_, _, _)
Misses(log, userID, q) ==
    IF log = <<>> THEN 0
    ELSE (IF /\ Head(log).user_id = userID
             /\ Head(log).question_number = q
             /\ Head(log).correct = FALSE
          THEN 1 ELSE 0)
         + Misses(Tail(log), userID, q)

\* C9: for every user, GetUserStats returns C correct and N - C incorrect,
\* N the user's rows and C those of them saved as correct, and the
\* statistics message of a user carries N, C and N - C.
C9_SummarizeCounts ==
    /\ \A u \in Users :
          GetUserStats(activity, u) =
              [correct   |-> CorrectRowsOf(activity, u),
               incorrect |-> RowsOf(activity, u) - CorrectRowsOf(activity, u)]
    /\ (Len(lastOut) = 1 /\ lastOut[1].text.tag = "stat") =>
          lastOut[1].text.stats =
              << RowsOf(activity, lastOut[1].chat),
                 CorrectRowsOf(activity, lastOut[1].chat),
                 RowsOf(activity, lastOut[1].chat)
                    - CorrectRowsOf(activity, lastOut[1].chat) >>

\* C9, reached: the statistics message of a user with correct and incorrect
\* rows, beside rows of the other user.
C9_Witness ==
    /\ Len(lastOut) = 1 /\ lastOut[1].text.tag = "stat"
    /\ lastOut[1].text.stats[2] >= 1
    /\ lastOut[1].text.stats[3] >= 1
    /\ \E u \in Users :
          /\ u # lastOut[1].chat
          /\ RowsOf(activity, u) >= 1
          /\ CorrectRowsOf(activity, u) < RowsOf(activity, u)

\* What C10 asks of a result top for a user and a limit.
TopMissedOK(log, userID, limit, top) ==
    /\ Len(top) <= limit
    /\ \A i \in 1 .. Len(top) : Misses(log, userID, top[i]) >= 1
    /\ \A i \in 1 .. Len(top) : \A j \in 1 .. Len(top) :
          i < j => Misses(log, userID, top[i]) >= Misses(log, userID, top[j])
    /\ \A q \in QuestionNumbers :
          (\A i \in 1 .. Len(top) : top[i] # q) =>
              \A i \in 1 .. Len(top) :
                  Misses(log, userID, q) <= Misses(log, userID, top[i])

\* C10: every result GetMostFrequentIncorrectQuestions can give for a user
\* and a limit has at most limit questions, each with an incorrect row of the
\* user, in non-increasing order of the user's incorrect rows, and leaves
\* out no question with more incorrect rows than one it returns (stated on
\* every log, in its state before a query); so does the list of a
\* statistics message.
C10_TopMissed ==
    /\ lastOut = <<>> =>
          \A u \in Users : \A limit \in 0 .. MaxLimit :
             \A top \in GetMostFrequentIncorrectQuestions(activity, u, limit) :
                TopMissedOK(activity, u, limit, top)
    /\ (Len(lastOut) = 1 /\ lastOut[1].text.tag = "stat") =>
          TopMissedOK(activity, lastOut[1].chat, MaxLimit, lastOut[1].text.list)

\* C10, reached: a statistics message whose list is cut at the limit, leaves
\* out a question the user answered incorrectly, and ranks a question with
\* more incorrect rows before one with fewer.
C10_Witness ==
    /\ Len(lastOut) = 1 /\ lastOut[1].text.tag = "stat"
    /\ Len(lastOut[1].text.list) = MaxLimit
    /\ \E q \in QuestionNumbers :
          /\ \A i \in 1 .. MaxLimit : lastOut[1].text.list[i] # q
          /\ Misses(activity, lastOut[1].chat, q) >= 1
    /\ Misses(activity, lastOut[1].chat, lastOut[1].text.list[1])
          > Misses(activity, lastOut[1].chat, lastOut[1].text.list[MaxLimit])

\* s is a prefix of t.
IsPrefix(s, t) ==
    Len(s) <= Len(t) /\ SubSeq(t, 1, Len(s)) = s

\* The rows of user_activity a goroutine's answer was saved as.
RowsOfTask(i) ==
    {k \in DOMAIN activity :
        /\ activity[k].user_id = tasks[i].from
        /\ activity[k].question_number = tasks[i].questionNum
        /\ activity[k].answer_number = tasks[i].answerNum}

C12_NoRecordOnAIFailure ==
    \A i \in DOMAIN tasks :
        (tasks[i].pc = "done" /\ tasks[i].text.tag = "aiFailed")
        => RowsOfTask(i) = {}

\* i is an index of the question's answers.
InRange(question, i) ==
    i >= 0 /\ i < Len(question.Answers)

\* C13: no saved answer whose answer number is not an index of the
\* question's answers is saved as correct, and the verdict message for a
\* question whose right answer is not such an index names the right answer
\* as "Unknown".
C13_OutOfRangeNeverCorrect ==
    /\ \A k \in DOMAIN activity :
          ~InRange(questions[activity[k].question_number],
                   activity[k].answer_number)
          => ~activity[k].correct
    /\ \A q \in lastReads :
          ( /\ Len(lastOut) = 1 /\ lastOut[1].text.tag = "incorrect"
            /\ ~InRange(questions[q], KnownRightAnswer(cache, q)) )
          => lastOut[1].text.correctAnswerText = "Unknown"

\* C14: a /help of a user with no current question sends exactly the one
\* message that tells the user to use /start, reads no cache row, and leaves
\* the cache, the count of AnalyzeQuestion calls, user_activity, the
\* goroutines and the update loop as they were.
C14_HelpWithoutSession ==
    [][ \A from \in Users : \A chat \in ChatsOf(from) :
           (handleHelpCommand(from, chat) /\ from \notin DOMAIN userQuestions)
           => /\ lastOut' = << sendMessage(chat, Text("useStart", "", "", "")) >>
              /\ lastReads' = {}
              /\ cache' = cache
              /\ aiCalls' = aiCalls
              /\ activity' = activity
              /\ tasks' = tasks
              /\ main' = main ]_vars

\* C14, reached: the /start message as the answer to a /help of a user with
\* no current question, while the cache holds a row and another user has a
\* current question.
C14_Witness ==
    /\ Len(lastOut) = 1 /\ lastOut[1].text.tag = "useStart"
    /\ lastOut[1].chat \notin DOMAIN userQuestions
    /\ DOMAIN userQuestions # {}
    /\ \E q \in QuestionNumbers : cache[q].present

\* A call of AnalyzeQuestion made for user u has not returned yet: the call
\* of u's /help or the call of the goroutine of an answer of u.
PendingHelpCall(u) ==
    main.pc = "helpAI" /\ main.from = u

PendingAnswerCall(u) ==
    \E i \in DOMAIN tasks : tasks[i].pc = "ai" /\ tasks[i].from = u

\* C15: while a call of AnalyzeQuestion made for one user is pending, whether
\* a goroutine's or /help's, the answer of another user can be handled (as
\* long as the run has an update left).
C15_OtherUsersNotBlocked ==
    \A u, v \in Users :
        ( /\ u # v
          /\ PendingHelpCall(u) \/ PendingAnswerCall(u)
          /\ updates < MaxEvents )
        => ENABLED (\E chat \in ChatsOf(v) : \E q \in QuestionNumbers :
                      \E a \in AnswerNums :
                         handleCallback(v, chat, q, a, TRUE, TRUE))

\* The question number on the buttons of the keyboard a handler sent last.
Delivered(out) ==
    out[Len(out)].text.list[1][1]

\* C16: the step of a /start or /next of a user, in whatever chat, leaves
\* the question it sent as that user's current question (what /help of the
\* user looks up) and changes no other user's current question; no other
\* step changes a current question.
C16_SessionPerUser ==
    [][ /\ \A from \in Users : \A chat \in ChatsOf(from) \cup {GroupChat} :
              (handleStartCommand(from, chat) \/ handleNextCommand(from, chat))
              => /\ from \in DOMAIN userQuestions'
                 /\ userQuestions'[from] = Delivered(lastOut')
                 /\ \A u \in Users \ {from} :
                       /\ u \in DOMAIN userQuestions' <=> u \in DOMAIN userQuestions
                       /\ u \in DOMAIN userQuestions =>
                             userQuestions'[u] = userQuestions[u]
        /\ updates' = updates => userQuestions' = userQuestions ]_vars

\* C17: when handleCallback's SaveUserActivity returns an error for an
\* answer to a loaded question, the handler sends what it sends when the
\* save returns none, and launches the goroutine exactly when it does then:
\* a step with the same messages and the same goroutines is possible from
\* the same state with the save succeeding.
C17_SaveFailureKeepsVerdict ==
    [][ \A from \in Users : \A chat \in ChatsOf(from) :
        \A q \in QuestionNumbers : \A a \in AnswerNums : \A sent \in BOOLEAN :
           handleCallback(from, chat, q, a, FALSE, sent)
           => /\ activity' = activity
              /\ \E out \in {lastOut'} : \E ts \in {tasks'} :
                    ENABLED ( /\ handleCallback(from, chat, q, a, TRUE, sent)
                              /\ lastOut' = out
                              /\ tasks' = ts ) ]_vars

\* C17, reached: no row was saved (every save failed), a verdict has just
\* been sent for a question with a right answer, and the goroutine of an
\* earlier answer, launched with its placeholder, has got its response.
C17_Witness ==
    /\ activity = <<>>
    /\ Len(lastOut) = 1 /\ lastOut[1].text.tag \in {"correct", "incorrect"}
    /\ \E i \in DOMAIN tasks : Answered(i) /\ tasks[i].calledAI

\* C18: once a question's cache row has a right answer, no step changes
\* the row's response or right answer (a later writer leaves it as it is).
C18_FirstWriterWins ==
    [][ \A q \in QuestionNumbers :
           Resolved(cache[q]) => cache'[q] = cache[q] ]_vars

\* C20: the step that handles an answer to a question whose right answer is
\* known sends exactly one message, launches no goroutine (nothing edits the
\* message later), and, when the question's cache row has a response, the
\* message carries that response with the verdict.
C20_VerdictWithCachedText ==
    [][ \A from \in Users : \A chat \in ChatsOf(from) :
        \A q \in QuestionNumbers : \A a \in AnswerNums :
           ( /\ handleCallback(from, chat, q, a, TRUE, TRUE)
             /\ KnownRightAnswer(cache, q) # -1 )
           => /\ Len(lastOut') = 1
              /\ lastOut'[1].text.tag \in {"correct", "incorrect"}
              /\ tasks' = tasks
              /\ GetCachedDeepseekResponse(cache, q)[1] # "" =>
                    lastOut'[1].text.body = GetCachedDeepseekResponse(cache, q)[1] ]_vars

\* C21: for a goroutine about to look at the cache, the goroutine calls
\* AnalyzeQuestion in this cache state exactly when /help for its question
\* would: the answer path and the help path make the same test.
C21_SameCacheCheck ==
    \A i \in DOMAIN tasks :
        tasks[i].pc = "recheck"
        => ( ENABLED (GoroutineRecheck(i) /\ aiCalls' # aiCalls)
             <=> helpCallsAnalyze(cache, tasks[i].questionNum) )

\* C22: every placeholder is edited at some later time: the message of each
\* goroutine launched gets at least one edit; and a goroutine that ended
\* with a right answer and a response has left the verdict and the response
\* in the message.
C22_PlaceholderReplaced ==
    /\ \A i \in 1 .. MaxFaultEvents :
          (Len(tasks) >= i) ~> (Len(tasks) >= i /\ tasks[i].edits >= 1)
    /\ [](\A i \in DOMAIN tasks :
            ( /\ tasks[i].pc = "done" /\ tasks[i].rightAnswer # -1
              /\ tasks[i].cachedResponse # "" )
            => /\ tasks[i].text.tag \in {"asyncCorrect", "asyncIncorrect"}
               /\ tasks[i].text.body = tasks[i].cachedResponse)

\* C22, reached: the placeholders of two answers, one edited to the response
\* of AnalyzeQuestion and one to the failure text.
C22_Witness ==
    \E i, j \in DOMAIN tasks :
        /\ tasks[i].pc = "done" /\ tasks[i].text.tag = "analysis"
        /\ tasks[i].edits = 1
        /\ tasks[j].pc = "done" /\ tasks[j].text.tag = "aiFailed"
        /\ tasks[j].edits = 1

\* C23: the step that handles an answer to a question with no known right
\* answer sends the placeholder, launches the goroutine for that message
\* with no call of AnalyzeQuestion and no edit made yet, and leaves the
\* update loop free; when the Send of the placeholder fails the step
\* launches no goroutine and calls nothing.
C23_PlaceholderFirst ==
    [][ \A from \in Users : \A chat \in ChatsOf(from) :
        \A q \in QuestionNumbers : \A a \in AnswerNums : \A saved \in BOOLEAN :
           /\ ( /\ handleCallback(from, chat, q, a, saved, TRUE)
                /\ KnownRightAnswer(cache, q) = -1 )
              => /\ Len(tasks') = Len(tasks) + 1
                 /\ SubSeq(tasks', 1, Len(tasks)) = tasks
                 /\ Len(lastOut') = 1
                 /\ lastOut'[1].text.tag = "placeholder"
                 /\ lastOut'[1].msgID = tasks'[Len(tasks')].initialMessageID
                 /\ tasks'[Len(tasks')].pc = "recheck"
                 /\ ~tasks'[Len(tasks')].calledAI
                 /\ tasks'[Len(tasks')].edits = 0
                 /\ aiCalls' = aiCalls
                 /\ main'.pc = "idle"
           /\ ( /\ handleCallback(from, chat, q, a, saved, FALSE)
                /\ KnownRightAnswer(cache, q) = -1 )
              => /\ tasks' = tasks
                 /\ aiCalls' = aiCalls
                 /\ lastOut' = <<>>
                 /\ main'.pc = "idle" ]_vars

\* C23, reached: the goroutine of one answer is inside its call of
\* AnalyzeQuestion while the loop has handled a later answer to a question
\* with no known right answer, whose placeholder could not be sent and for
\* which there is no goroutine.
C23_Witness ==
    /\ Len(tasks) = 1 /\ tasks[1].pc = "ai" /\ tasks[1].edits = 0
    /\ updates = 2
    /\ lastOut = <<>>
    /\ \E q \in lastReads : KnownRightAnswer(cache, q) = -1

\* C24: the step in which a call of AnalyzeQuestion returns an error, to a
\* goroutine or to /help, leaves the cache and user_activity as they were
\* and makes one edit (goroutine) or sends one message (/help) with the
\* failure text, after which the goroutine has ended or the loop is idle;
\* and whenever the loop is idle and the run has an update left, an update
\* can be handled.
C24_AIErrorContained ==
    /\ [][ /\ \A i \in DOMAIN tasks :
                ( /\ \E stored \in BOOLEAN : GoroutineReturn(i, stored)
                  /\ tasks'[i].text.tag = "aiFailed" )
                => /\ cache' = cache
                   /\ activity' = activity
                   /\ tasks'[i].edits = tasks[i].edits + 1
                   /\ tasks'[i].pc = "done"
                   /\ main' = main
           /\ ( /\ \E stored \in BOOLEAN : handleHelpReturn(stored)
                /\ lastOut'[Len(lastOut')].text.tag = "helpFailed" )
              => /\ cache' = cache
                 /\ activity' = activity
                 /\ Len(lastOut') = Len(lastOut) + 1
                 /\ main' = Idle ]_vars
    /\ []( (main.pc = "idle" /\ updates < MaxEvents)
           => \A from \in Users : \A chat \in ChatsOf(from) :
                 \A q \in QuestionNumbers : \A a \in AnswerNums :
                    /\ ENABLED handleCallback(from, chat, q, a, TRUE, TRUE)
                    /\ ENABLED handleHelpCommand(from, chat) )

\* C24, reached: the call of a goroutine and the call of /help have both
\* returned an error, the message of the goroutine and the chat of /help
\* have the failure text, and the loop is idle.
C24_Witness ==
    /\ \E i \in DOMAIN tasks :
          tasks[i].pc = "done" /\ tasks[i].text.tag = "aiFailed"
    /\ Len(lastOut) = 2 /\ lastOut[2].text.tag = "helpFailed"
    /\ main = Idle

\* The calls of AnalyzeQuestion counted in calls, over all questions.
RECURSIVE SumTo(_, _)
SumTo(calls, n) ==
    IF n = 0 THEN 0 ELSE calls[n] + SumTo(calls, n - 1)

TotalCalls(calls) == SumTo(calls, Cardinality(DOMAIN calls))

\* C25: no step makes more than one call of AnalyzeQuestion; a step that
\* makes one is the step of a /help update or the one step in which the
\* goroutine of one answer makes its first call; a goroutine that has called
\* never calls again, and the return of /help's call makes no call. So there
\* are never more calls than updates, and after a failed call the next call
\* for the question belongs to a later update.
C25_NoAutomaticRetry ==
    /\ [][ /\ TotalCalls(aiCalls') <= TotalCalls(aiCalls) + 1
           /\ TotalCalls(aiCalls') > TotalCalls(aiCalls) =>
                 \/ updates' = updates + 1 /\ main'.pc = "helpAI"
                 \/ /\ updates' = updates
                    /\ \E i \in DOMAIN tasks :
                          /\ ~tasks[i].calledAI /\ tasks'[i].calledAI
                          /\ aiCalls'[tasks[i].questionNum]
                                = aiCalls[tasks[i].questionNum] + 1
           /\ \A i \in DOMAIN tasks :
                 tasks[i].calledAI =>
                    /\ tasks'[i].calledAI
                    /\ ~(GoroutineRecheck(i) /\ aiCalls' # aiCalls)
           /\ (\E stored \in BOOLEAN : handleHelpReturn(stored)) =>
                 aiCalls' = aiCalls ]_vars
    /\ [](TotalCalls(aiCalls) <= updates)

\* C25, reached: the call of a goroutine for a question has failed, and the
\* next call for that question is the one of a later /help.
C25_Witness ==
    /\ main.pc = "helpAI"
    /\ aiCalls[main.questionNum] = 2
    /\ \E i \in DOMAIN tasks :
          /\ tasks[i].questionNum = main.questionNum
          /\ tasks[i].pc = "done" /\ tasks[i].text.tag = "aiFailed"

\* C26: the step that handles an answer naming a question that is not
\* loaded sends the one message that the question is no longer available,
\* reads no cache row, and leaves user_activity, the cache, the calls of
\* AnalyzeQuestion, the current questions, the goroutines and the loop as
\* they were; the step that handles callback data of another form sends
\* nothing and leaves all of them as they were too.
C26_MissingQuestionNoEffect ==
    [][ \A from \in Users : \A chat \in ChatsOf(from) :
           /\ \A a \in AnswerNums : \A saved, sent \in BOOLEAN :
                 handleCallback(from, chat, MissingQuestion, a, saved, sent)
                 => /\ lastOut' =
                         << sendMessage(chat, Text("unavailable", "", "", "")) >>
                    /\ lastReads' = {}
                    /\ UNCHANGED <<userQuestions, cache, activity, tasks, main,
                                   aiCalls>>
           /\ handleCallbackInvalid(from, chat)
                 => /\ lastOut' = <<>>
                    /\ lastReads' = {}
                    /\ UNCHANGED <<userQuestions, cache, activity, tasks, main,
                                   aiCalls>> ]_vars

\* C26, reached: the message that the question is no longer available, sent
\* while the bot has current questions, saved answers, a cache row and a
\* goroutine.
C26_Witness ==
    /\ Len(lastOut) = 1 /\ lastOut[1].text.tag = "unavailable"
    /\ activity # <<>>
    /\ tasks # <<>>
    /\ \E q \in QuestionNumbers : cache[q].present

\* C27: the step in which a goroutine's call of AnalyzeQuestion returns a
\* response with the right answer -1 caches the response with -1, edits the
\* placeholder once, to the response and no verdict, and saves nothing; and
\* a question whose cache row has the right answer -1 is still without a
\* known right answer: an answer to it gets a goroutine, and a goroutine
\* that looks at that row calls AnalyzeQuestion.
C27_UnresolvedResultIsNoError ==
    /\ [][ \A i \in DOMAIN tasks :
              ( /\ GoroutineReturn(i, TRUE)
                /\ tasks'[i].text.tag # "aiFailed"
                /\ tasks'[i].rightAnswer = -1 )
              => /\ cache'[tasks[i].questionNum] =
                      [present |-> TRUE, response |-> tasks'[i].cachedResponse,
                       right_answer |-> -1]
                 /\ tasks'[i].text.tag = "analysis"
                 /\ tasks'[i].text.body = tasks'[i].cachedResponse
                 /\ tasks'[i].edits = tasks[i].edits + 1
                 /\ ~tasks'[i].isCorrect
                 /\ activity' = activity ]_vars
    /\ [](\A q \in QuestionNumbers :
            ( /\ cache[q].present /\ cache[q].right_answer = -1
              /\ questions[q].RightAnswer = -1 )
            => /\ (main.pc = "idle" /\ updates < MaxEvents) =>
                     \A from \in Users : \A chat \in ChatsOf(from) :
                        \A a \in AnswerNums :
                           ENABLED ( /\ handleCallback(from, chat, q, a, TRUE, TRUE)
                                     /\ Len(tasks') = Len(tasks) + 1 )
               /\ \A i \in DOMAIN tasks :
                     (tasks[i].questionNum = q /\ tasks[i].pc = "recheck") =>
                        ENABLED (GoroutineRecheck(i) /\ aiCalls' # aiCalls))

\* C27, reached: the placeholder of one answer shows the response, cached
\* with -1, and the goroutine of a second answer to the question has called
\* AnalyzeQuestion again.
C27_Witness ==
    \E i, j \in DOMAIN tasks :
        /\ i # j /\ tasks[i].questionNum = tasks[j].questionNum
        /\ tasks[i].pc = "done" /\ tasks[i].text.tag = "analysis"
        /\ tasks[i].text.body = "e1"
        /\ cache[tasks[i].questionNum] =
              [present |-> TRUE, response |-> "e1", right_answer |-> -1]
        /\ tasks[j].pc = "ai"
        /\ aiCalls[tasks[i].questionNum] = 2

\* The buttons C28 asks for a question: one per answer, with the answer's
\* index, and one with index 0 for a question with no answers.
ControlsOK(q, list) ==
    LET n == Len(questions[q].Answers)
    IN  /\ Len(list) >= 1
        /\ n > 0 => /\ Len(list) = n
                    /\ \A k \in 1 .. n : list[k] = <<q, k - 1>>
        /\ n = 0 => list = << <<q, 0>> >>

\* C28: every /start and /next step sends, with the question it stored for
\* the chat, a keyboard with one button per answer, or the one button with
\* index 0 for a question with no answers; that button can be pressed, and
\* the step that handles it saves the answer 0 and sends the placeholder
\* with the answer shown as "Unknown", as for any answer to a question with
\* no known right answer.
C28_AlwaysOneControl ==
    /\ [][ \A from \in Users : \A chat \in ChatsOf(from) :
              /\ (handleStartCommand(from, chat) \/ handleNextCommand(from, chat))
                 => /\ lastOut'[Len(lastOut')].text.tag = "select"
                    /\ ControlsOK(userQuestions'[chat],
                                  lastOut'[Len(lastOut')].text.list)
              /\ ( /\ PressButton(from, chat)
                   /\ Len(questions[userQuestions[chat]].Answers) = 0 )
                 => /\ activity' = Append(activity,
                           [user_id |-> from,
                            question_number |-> userQuestions[chat],
                            answer_number |-> 0, correct |-> FALSE])
                    /\ Len(lastOut') = 1
                    /\ lastOut'[1].text.tag = "placeholder"
                    /\ lastOut'[1].text.userAnswer = "Unknown"
                    /\ Len(tasks') = Len(tasks) + 1 ]_vars
    /\ [](\A from \in Users : \A chat \in ChatsOf(from) :
            ( /\ lastOut # <<>>
              /\ lastOut[Len(lastOut)].text.tag = "select"
              /\ lastOut[Len(lastOut)].chat = chat
              /\ updates < MaxEvents )
            => ENABLED PressButton(from, chat))

\* C28, reached: the one button of a question with no answers was pressed,
\* the answer 0 is saved, and the placeholder, with "Unknown" for the
\* answer, has been edited to the response of AnalyzeQuestion.
C28_Witness ==
    \E i \in DOMAIN tasks :
        /\ Len(questions[tasks[i].questionNum].Answers) = 0
        /\ tasks[i].answerNum = 0
        /\ tasks[i].userAnswer = "Unknown"
        /\ tasks[i].pc = "done" /\ tasks[i].text.tag = "analysis"
        /\ tasks[i].text.userAnswer = "Unknown"
        /\ \E k \in RowsOfTask(i) : ~activity[k].correct

\* C29: the goroutines leave userQuestions alone and work on the question
\* they were launched with: a step that changes userQuestions is a step of
\* the update loop, no step (a /start or /next of the same user included)
\* changes the question, user, chat or answer of a launched goroutine, and
\* a goroutine counts its call of AnalyzeQuestion and writes its cache row
\* under its own question, whatever userQuestions holds by then.
C29_SessionOwnedByLoop ==
    [][ /\ userQuestions' # userQuestions => updates' = updates + 1
        /\ \A i \in DOMAIN tasks :
              /\ i \in DOMAIN tasks'
              /\ tasks'[i].questionNum = tasks[i].questionNum
              /\ tasks'[i].from = tasks[i].from
              /\ tasks'[i].chat = tasks[i].chat
              /\ tasks'[i].answerNum = tasks[i].answerNum
              /\ GoroutineRecheck(i)
                 => /\ userQuestions' = userQuestions
                    /\ \A q \in QuestionNumbers :
                          q # tasks[i].questionNum => aiCalls'[q] = aiCalls[q]
              /\ (\E stored \in BOOLEAN : GoroutineReturn(i, stored))
                 => /\ userQuestions' = userQuestions
                    /\ \A q \in QuestionNumbers :
                          q # tasks[i].questionNum => cache'[q] = cache[q] ]_vars

\* C29, reached: a goroutine is in its call of AnalyzeQuestion for the
\* question it was launched with, after a /start or /next of its chat made
\* another question the current one; no call was made for that other one.
C29_Witness ==
    \E i \in DOMAIN tasks :
        /\ tasks[i].pc = "ai"
        /\ lastOut # <<>>
        /\ lastOut[Len(lastOut)].text.tag = "select"
        /\ lastOut[Len(lastOut)].chat = tasks[i].chat
        /\ tasks[i].chat \in DOMAIN userQuestions
        /\ userQuestions[tasks[i].chat] # tasks[i].questionNum
        /\ aiCalls[tasks[i].questionNum] >= 1
        /\ aiCalls[userQuestions[tasks[i].chat]] = 0

\* C30: with the writes succeeding, the activity table grows by one row
\* exactly in the steps of handleCallback on an answer to a loaded question,
\* the row being that answer's, and never otherwise: no step of a goroutine,
\* of /help, /stat, /start or /next, and no callback for a missing question
\* or with malformed data changes the table. So the number of rows is the
\* number of such answers handled so far.
C30_OneRecordPerSubmission ==
    [][ /\ \A from \in Users : \A chat \in ChatsOf(from) :
              /\ \A q \in QuestionNumbers : \A a \in AnswerNums :
                    handleCallback(from, chat, q, a, TRUE, TRUE)
                    => /\ Len(activity') = Len(activity) + 1
                       /\ IsPrefix(activity, activity')
                       /\ activity'[Len(activity')].user_id = from
                       /\ activity'[Len(activity')].question_number = q
                       /\ activity'[Len(activity')].answer_number = a
              /\ ( \/ handleStartCommand(from, chat)
                   \/ handleNextCommand(from, chat)
                   \/ handleHelpCommand(from, chat)
                   \/ handleStatCommand(from, chat)
                   \/ handleCallbackInvalid(from, chat)
                   \/ \E a \in AnswerNums :
                         handleCallback(from, chat, MissingQuestion, a, TRUE, TRUE) )
                 => activity' = activity
        /\ ( \/ handleHelpReturn(TRUE)
             \/ \E i \in DOMAIN tasks : GoroutineRecheck(i)
             \/ \E i \in DOMAIN tasks : GoroutineReturn(i, TRUE) )
           => activity' = activity
        /\ activity' # activity
           => \E from \in Users : \E chat \in ChatsOf(from) :
                 \E q \in QuestionNumbers : \E a \in AnswerNums :
                    handleCallback(from, chat, q, a, TRUE, TRUE) ]_vars

\* C30, reached: two answers of one user to one question were handled, one
\* of them with a goroutine that has ended after calling AnalyzeQuestion,
\* and the table holds the two rows.
C30_Witness ==
    /\ Len(activity) = 2
    /\ activity[1].user_id = activity[2].user_id
    /\ activity[1].question_number = activity[2].question_number
    /\ \E i \in DOMAIN tasks :
          /\ tasks[i].pc = "done" /\ tasks[i].calledAI
          /\ tasks[i].questionNum = activity[1].question_number
    /\ updates = MaxEvents

\* C31: handleCallback neither reads nor writes userQuestions. An answer to
\* a loaded question can be handled whatever userQuestions holds, the step
\* saves its row and leaves userQuestions as it was, also when the question
\* is not the chat's current one or the chat has none; and a /help of a user
\* with a current question reads the cache for that question, the one the
\* last /start or /next stored, whichever question was answered last.
C31_AnswerLeavesSession ==
    /\ [][ \A from \in Users : \A chat \in ChatsOf(from) :
              /\ \A q \in QuestionNumbers : \A a \in AnswerNums :
                    handleCallback(from, chat, q, a, TRUE, TRUE)
                    => /\ userQuestions' = userQuestions
                       /\ activity' # activity
                       /\ activity'[Len(activity')].user_id = from
                       /\ activity'[Len(activity')].question_number = q
                       /\ activity'[Len(activity')].answer_number = a
              /\ ( /\ handleHelpCommand(from, chat)
                   /\ from \in DOMAIN userQuestions )
                 => /\ lastReads' = {userQuestions[from]}
                    /\ userQuestions' = userQuestions
                    /\ main'.pc = "helpAI"
                       => main'.questionNum = userQuestions[from] ]_vars
    /\ [](\A from \in Users : \A chat \in ChatsOf(from) :
            \A q \in QuestionNumbers : \A a \in AnswerNums :
               (main.pc = "idle" /\ updates < MaxEvents)
               => ENABLED handleCallback(from, chat, q, a, TRUE, TRUE))

\* C31, reached: a user whose current question is one question answered
\* another one, the row is saved, and the /help that followed read the
\* cache for the current question.
C31_Witness ==
    \E u \in Users :
        /\ u \in DOMAIN userQuestions
        /\ activity # <<>>
        /\ activity[Len(activity)].user_id = u
        /\ activity[Len(activity)].question_number # userQuestions[u]
        /\ lastOut # <<>>
        /\ lastOut[1].text.tag \in {"help", "analyzing"}
        /\ lastOut[1].chat = u
        /\ lastReads = {userQuestions[u]}

\* C32: every entry of userQuestions is the Number of a loaded question, and
\* so no /help is answered with the message for a current question that
\* is not found in b.questions.
C32_SessionHoldsLoadedQuestion ==
    /\ \A id \in DOMAIN userQuestions : userQuestions[id] \in QuestionNumbers
    /\ \A k \in DOMAIN lastOut : lastOut[k].text.tag # "notFound"

\* C32, reached: both users have a current question, and a /help found its
\* user's question among the loaded ones and is in its call of
\* AnalyzeQuestion for it.
C32_Witness ==
    /\ DOMAIN userQuestions = Users
    /\ main.pc = "helpAI"
    /\ main.questionNum = userQuestions[main.from]
    /\ main.questionNum \in QuestionNumbers
    /\ lastOut # <<>> /\ lastOut[1].text.tag = "analyzing"

====
